---- MODULE Spec2Model ----
(***************************************************************************)
(* BHIT (TensorFlow notebook): the likelihood engine (logLikeCont,         *)
(* logLikeDisc, logLikeDepe, calcProb) and the Metropolis-Hastings         *)
(* partition sampler of src/notebook/tf_bhit.ipynb.                        *)
(*                                                                         *)
(* Index arrays (Ix, Iy) are functions over 0..TotalNum-1, as numpy's      *)
(* 0-based arrays. Tensors are sequences of rows. A tf.string is a         *)
(* sequence of one-character strings. A tf.float64 is an integer number of *)
(* 1/FX units; tf.log and tf.lgamma are evaluated in that fixed point.     *)
(***************************************************************************)
EXTENDS Integers, Sequences, FiniteSets, TLC

\* ---------------------------------------------------------------- sizes
\* init(): SNPNum, PhenoNum, ObsNum, iterNum (scaled down for checking).
SNPNum == 2

PhenoNum == 1

obsNum == 2

iterNum == 3

TotalNum == SNPNum + PhenoNum

\* Largest tensors handed to the likelihood engine in specification SpecLik.
MaxDiscRows == 2

MaxContRows == 2

\* Genotype codes a data file may hold (np.int32 of the loaded value).
Codes == {0, 1, 2, 3}

\* MAF = 0.5, as the fraction MAFNum / MAFDen.
MAFNum == 1

MAFDen == 2

\* ------------------------------------------------- numeric substrate
\* tf.float64 values are integers in units of 1/FX.
FX == 10 ^ 3

ZERO == 0

RECURSIVE SumSeq(_)
SumSeq(s) == IF s = <<>> THEN 0 ELSE Head(s) + SumSeq(Tail(s))

RECURSIVE ProdSeq(_)
ProdSeq(s) == IF s = <<>> THEN 1 ELSE Head(s) * ProdSeq(Tail(s))

RECURSIVE Pow(_, _)
Pow(b, e) == IF e = 0 THEN 1 ELSE b * Pow(b, e - 1)

\* tf.maximum in the place of tf.minimum.
Minimum_larger(a, b) == IF a <= b THEN b ELSE a

Minimum(a, b) == IF a <= b THEN a ELSE b

RECURSIVE Log2Floor(_)
Log2Floor(v) == IF v < 2 THEN 0 ELSE 1 + Log2Floor(v \div 2)

\* log2(v) in 1/FX units for an integer v >= 1: exponent plus linear mantissa.
Lg(v) == LET e == Log2Floor(v) IN FX * e + (FX * (v - Pow(2, e))) \div Pow(2, e)

\* tf.log(p/q) in 1/FX units, p, q >= 1 (ln 2 = 0.693).
log(p, q) == (693 * (Lg(p) - Lg(q))) \div 1000

\* Stirling's series for lgamma(p/q), p/q >= 1, in 1/FX units.
Stirling(p, q) ==
    ((2 * p - q) * log(p, q)) \div (2 * q) - (FX * p) \div q
        + (919 * FX) \div 1000 + (FX * q) \div (12 * p)

\* tf.lgamma(p/q) for p/q > 0: lgamma(z) = lgamma(z + 1) - log(z).
lgamma(p, q) == Stirling(p + q, q) - log(p, q)

\* ------------------------------------------------------ tf.string ops
Digit == <<"0", "1", "2", "3", "4", "5", "6", "7", "8", "9">>

\* ndarray.astype('str') of a non-negative np.int32.
RECURSIVE Str(_)
Str(n) == IF n < 10 THEN <<Digit[n + 1]>> ELSE Str(n \div 10) \o <<Digit[(n % 10) + 1]>>

DigitVal(c) == CHOOSE d \in 0..9 : Digit[d + 1] = c

\* tf.string_to_number(s, out_type=tf.int32) of a digit string.
RECURSIVE string_to_number(_)
string_to_number(s) ==
    IF s = <<>> THEN 0
    ELSE 10 * string_to_number(SubSeq(s, 1, Len(s) - 1)) + DigitVal(s[Len(s)])

\* Number of columns of a tensor given as a sequence of rows.
Cols(t) == IF Len(t) = 0 THEN 0 ELSE Len(t[1])

RECURSIVE JoinRows(_, _, _)
JoinRows(t, j, sep) ==
    IF Len(t) = 0 THEN <<>>
    ELSE IF Len(t) = 1 THEN t[1][j]
    ELSE t[1][j] \o <<sep>> \o JoinRows(Tail(t), j, sep)

\* tf.reduce_join(t, 0, separator=sep): one joined string per column.
reduce_join(t, sep) == [j \in 1..Cols(t) |-> JoinRows(t, j, sep)]

RECURSIVE UniqueOf(_, _)
UniqueOf(s, seen) ==
    IF s = <<>> THEN seen
    ELSE IF \E m \in 1..Len(seen) : seen[m] = Head(s) THEN UniqueOf(Tail(s), seen)
    ELSE UniqueOf(Tail(s), Append(seen, Head(s)))

\* tf.unique(s): the distinct values in order of first occurrence.
unique(s) == UniqueOf(s, <<>>)

\* unique_with_counts counting each distinct value among the distinct values.
unique_with_counts_ofUnique(s) ==
    LET w == unique(s)
    IN  [y |-> w,
         count |-> [m \in 1..Len(w) |-> Cardinality({j \in 1..Len(w) : w[j] = w[m]})]]

\* tf.unique_with_counts(s): y (distinct values) and count (occurrences of each).
unique_with_counts(s) ==
    LET u == unique(s)
    IN  [y |-> u,
         count |-> [m \in 1..Len(u) |-> Cardinality({j \in 1..Len(s) : s[j] = u[m]})]]

RECURSIVE SplitOne(_, _, _)
SplitOne(s, delim, cur) ==
    IF s = <<>> THEN (IF cur = <<>> THEN <<>> ELSE <<cur>>)
    ELSE IF Head(s) = delim
         THEN (IF cur = <<>> THEN <<>> ELSE <<cur>>) \o SplitOne(Tail(s), delim, <<>>)
         ELSE SplitOne(Tail(s), delim, Append(cur, Head(s)))

\* tf.string_split(v, delimiter) followed by tf.sparse_tensor_to_dense(., default):
\* the tokens of each string, rows padded with default to the longest row.
string_split_dense(v, delim, default) ==
    LET toks == [m \in 1..Len(v) |-> SplitOne(v[m], delim, <<>>)]
        width == IF Len(v) = 0 THEN 0
                 ELSE CHOOSE w \in {Len(toks[m]) : m \in 1..Len(v)} :
                          \A m \in 1..Len(v) : Len(toks[m]) <= w
    IN  [m \in 1..Len(v) |->
            [c \in 1..width |-> IF c <= Len(toks[m]) THEN toks[m][c] ELSE default]]

\* ------------------------------------------------------------- state
VARIABLES
    GeneData,    \* dataset[:SNPNum].astype(np.int32).astype('str')
    PhenoData,   \* dataset[SNPNum:TotalNum]
    Ix,          \* the current index array
    Iy,          \* the proposed index array
    x,           \* smaller drawn label
    y,           \* larger drawn label
    k,           \* the position relabelled in Iy
    i,           \* number of completed iterations of the for loop
    pc,          \* position of the sampler: "while", "run", "end", "done"
    u,           \* tf.log(u) of the last sess.run, in 1/FX units
    fed,         \* the index1 fed to the last sess.run
    printed,     \* the index array printed after the loop, <<>> before
    discTensor,  \* SpecLik: discrete tensor handed to the engine
    contTensor,  \* SpecLik: continuous tensor handed to the engine
    call,        \* SpecLik: the engine function last evaluated, "" before
    out          \* SpecLik: what that evaluation produced

vars == <<GeneData, PhenoData, Ix, Iy, x, y, k, i, pc, u, fed, printed,
          discTensor, contTensor, call, out>>

dataVars == <<GeneData, PhenoData>>

samplerVars == <<Ix, Iy, x, y, k, i, pc, u, fed, printed>>

engineVars == <<discTensor, contTensor, call, out>>

\* ------------------------------------------------ graph constants
\* Odds = [(1-MAF)**2, 2*MAF*(1-MAF), MAF**2], numerators over OddsDen.
Odds == <<(MAFDen - MAFNum) * (MAFDen - MAFNum), 2 * MAFNum * (MAFDen - MAFNum),
         MAFNum * MAFNum>>

OddsDen == MAFDen * MAFDen

KAPPA0 == 1

NU0 == PhenoNum + 1

\* MEANS = tf.reduce_mean(PhenoData, axis=1), in 1/FX units.
MEANS == [r \in 1..Len(PhenoData) |-> (FX * SumSeq(PhenoData[r])) \div Len(PhenoData[r])]

\* MU0 = tf.reduce_max(MEANS) + 2
MU0 == (CHOOSE m \in {MEANS[r] : r \in 1..Len(MEANS)} :
            \A r \in 1..Len(MEANS) : MEANS[r] <= m) + 2 * FX

\* --------------------------------------------------- logLikeCont
\* func1 of logLikeCont: the univariate closed form over all entries of the tensor.
func1(t) ==
    LET n     == Cols(t)
        means == (FX * SumSeq(t[1])) \div n
        sq(d) == (d * d) \div FX
        nuVar == NU0 * FX
                 + SumSeq([j \in 1..n |-> sq(FX * t[1][j] - means)])
                 + (KAPPA0 * ((FX * n) \div (KAPPA0 + n)) * sq(means - MU0)) \div FX
    IN  (0 - (log(6283, 1000) * n) \div 2) + log(KAPPA0, KAPPA0 + n) \div 2
            + lgamma(NU0 + n, 2)
            - lgamma(NU0, 2) + (log(NU0, 2) * NU0) \div 2
            - (log(nuVar, 2 * FX) * (NU0 + n)) \div 2

\* logLikeCont sending every tensor that has rows through func1.
logLikeCont_anyRows(t) ==
    LET varNum == Len(t)
    IN  IF varNum >= 1 THEN func1(t) ELSE ZERO

\* logProb = tf.cond(tf.equal(varNum, 1), lambda: func1(), lambda: ZERO)
logLikeCont(t) ==
    LET varNum == Len(t)
    IN  IF varNum = 1 THEN func1(t) ELSE ZERO

\* --------------------------------------------------- logLikeDisc
\* combined_tensor = tf.reduce_join(discTensor, 0, separator=' ')
DiscCombined(t) == reduce_join(t, " ")

\* DiscIdx without the subtraction of 1.
DiscIdx_noOffset(unique_tensor) ==
    LET dense == string_split_dense(unique_tensor, " ", <<"1">>)
    IN  [c \in 1..Len(dense) |->
            [r \in 1..Len(dense[c]) |-> string_to_number(dense[c][r])]]

\* idx of the unique strings: split, densify with '1', convert to numbers,
\* subtract 1.
DiscIdx(unique_tensor) ==
    LET dense == string_split_dense(unique_tensor, " ", <<"1">>)
    IN  [c \in 1..Len(dense) |->
            [r \in 1..Len(dense[c]) |-> string_to_number(dense[c][r]) - 1]]

\* Whether every index handed to tf.gather(params, idx) is inside params.
IdxInRange(params, idx) ==
    \A c \in 1..Len(idx) : \A r \in 1..Len(idx[c]) : idx[c][r] \in 0..(Len(params) - 1)

\* tf.gather(params, j) for one index: 0 where the index is outside params
\* (the GPU kernel; the CPU kernel raises InvalidArgumentError instead).
gather(params, j) == IF j \in 0..(Len(params) - 1) THEN params[j + 1] ELSE 0

\* alpha taking the pseudo-count of the first row of each category only.
DiscAlpha_firstRow(idx) ==
    [c \in 1..Len(idx) |-> gather(Odds, idx[c][1])]

\* alpha = tf.reduce_prod(tf.gather(Odds, idx), axis=1), numerators over DiscDen.
DiscAlpha(idx) ==
    [c \in 1..Len(idx) |-> ProdSeq([r \in 1..Len(idx[c]) |-> gather(Odds, idx[c][r])])]

\* The denominator of the alphas of a tensor of that many rows.
DiscDen(rows) == Pow(OddsDen, rows)

\* n_plus_alpha and the two logProb updates, N the counts of the categories.
DiscLogProb(alpha, N, den) ==
    LET n_plus_alpha == [c \in 1..Len(alpha) |-> alpha[c] + N[c] * den]
    IN  SumSeq([c \in 1..Len(alpha) |->
                    lgamma(n_plus_alpha[c], den) - lgamma(alpha[c], den)])
            - lgamma(SumSeq(n_plus_alpha), den)

logLikeDisc(t) ==
    LET uc    == unique_with_counts(DiscCombined(t))
        alpha == DiscAlpha(DiscIdx(uc.y))
    IN  DiscLogProb(alpha, uc.count, DiscDen(Len(t)))

\* --------------------------------------------------- logLikeDepe
\* The first matching column alone.
RECURSIVE WhereEq_firstMatch(_, _, _)
WhereEq_firstMatch(s, v, from) ==
    IF from > Len(s) THEN <<>>
    ELSE IF s[from] = v THEN <<from>> ELSE WhereEq_firstMatch(s, v, from + 1)

\* tf.where(tf.equal(combined_tensor, elem)): the matching columns, ascending.
RECURSIVE WhereEq(_, _, _)
WhereEq(s, v, from) ==
    IF from > Len(s) THEN <<>>
    ELSE (IF s[from] = v THEN <<from>> ELSE <<>>) \o WhereEq(s, v, from + 1)

\* select_fn's selected tensor: the columns of contTensor falling in category elem.
DepeSelected(d, c, elem) ==
    LET cols == WhereEq(DiscCombined(d), elem, 1)
    IN  [r \in 1..Len(c) |-> [j \in 1..Len(cols) |-> c[r][cols[j]]]]

logLikeDepe(d, c) ==
    LET unique_tensor == unique(DiscCombined(d))
    IN  SumSeq([m \in 1..Len(unique_tensor) |->
                    logLikeCont(DepeSelected(d, c, unique_tensor[m]))])
            + logLikeDisc(d)

\* ------------------------------------------------------ calcProb
\* The ordered predicates of pred_fn; tf.case(exclusive=False) takes the first
\* that holds, the default when none does.
\* The predicates of calcProb in an order that tries logLikeDisc first.
calcProbPreds_discFirst(t1, t2) ==
    << [pred |-> Len(t1) > 0,                fn |-> "logLikeDisc"],
       [pred |-> Len(t1) > 0 /\ Len(t2) > 0, fn |-> "logLikeDepe"],
       [pred |-> Len(t2) > 0,                fn |-> "logLikeCont"] >>

calcProbPreds(t1, t2) ==
    << [pred |-> Len(t1) > 0 /\ Len(t2) > 0, fn |-> "logLikeDepe"],
       [pred |-> Len(t1) > 0,                fn |-> "logLikeDisc"],
       [pred |-> Len(t2) > 0,                fn |-> "logLikeCont"] >>

case(preds, default) ==
    IF \E m \in 1..Len(preds) : preds[m].pred
    THEN preds[CHOOSE m \in 1..Len(preds) :
                   preds[m].pred /\ \A l \in 1..(m - 1) : ~preds[l].pred].fn
    ELSE default

calcProbBranch(t1, t2) == case(calcProbPreds(t1, t2), "ZERO")

calcProb(t1, t2) ==
    LET b == calcProbBranch(t1, t2)
    IN  IF b = "logLikeDepe" THEN logLikeDepe(t1, t2)
        ELSE IF b = "logLikeDisc" THEN logLikeDisc(t1)
        ELSE IF b = "logLikeCont" THEN logLikeCont(t2)
        ELSE ZERO

\* ------------------------------------------------- graph of sess.run
Positions == 0..(TotalNum - 1)

\* The rows of data (variables lo..hi-1 of the dataset) whose label in index is v:
\* tf.squeeze(tf.gather(data, tf.where(tf.equal(index[lo:hi], v))), [1]).
RECURSIVE GatherWhere(_, _, _, _, _)
GatherWhere(data, index, v, lo, hi) ==
    IF lo >= hi THEN <<>>
    ELSE (IF index[lo] = v THEN <<data[Len(data) - (hi - lo) + 1]>> ELSE <<>>)
             \o GatherWhere(data, index, v, lo + 1, hi)

Dxx(index1, var1) == GatherWhere(GeneData, index1, var1, 0, SNPNum)

Cxx(index1, var1) == GatherWhere(PhenoData, index1, var1, SNPNum, TotalNum)

Dxy(index1, var2) == GatherWhere(GeneData, index1, var2, 0, SNPNum)

Cxy(index1, var2) == GatherWhere(PhenoData, index1, var2, SNPNum, TotalNum)

Dyx(index2, var1) == GatherWhere(GeneData, index2, var1, 0, SNPNum)

Cyx(index2, var1) == GatherWhere(PhenoData, index2, var1, SNPNum, TotalNum)

\* Dyy reading the current array instead of index2.
Dyy_fromCurrent(index2, var2) == GatherWhere(GeneData, Ix, var2, 0, SNPNum)

Dyy(index2, var2) == GatherWhere(GeneData, index2, var2, 0, SNPNum)

Cyy(index2, var2) == GatherWhere(PhenoData, index2, var2, SNPNum, TotalNum)

pX(index1, var1, var2) ==
    calcProb(Dxx(index1, var1), Cxx(index1, var1))
        + calcProb(Dxy(index1, var2), Cxy(index1, var2))

pY(index2, var1, var2) ==
    calcProb(Dyx(index2, var1), Cyx(index2, var1))
        + calcProb(Dyy(index2, var2), Cyy(index2, var2))

\* accept with the score difference taken the wrong way round.
accept_flipped(logu, index1, index2, var1, var2) ==
    logu <= Minimum(ZERO, pX(index1, var1, var2) - pY(index2, var1, var2))

\* accept = tf.log(u) <= tf.minimum(ZERO, pY-pX); logu is tf.log(u).
accept(logu, index1, index2, var1, var2) ==
    logu <= Minimum(ZERO, pY(index2, var1, var2) - pX(index1, var1, var2))

\* res = tf.cond(accept, lambda: index2, lambda: index1)
res(logu, index1, index2, var1, var2) ==
    IF accept(logu, index1, index2, var1, var2) THEN index2 ELSE index1

\* tf.log(u) for the draws u of tf.random_uniform([]) the model distinguishes.
LogUs == {0 - 1, 0 - 1045, 0 - 3000}

\* --------------------------------------------------------- the sampler
\* np.where(arr == v)[0]
where(arr, v) == {p \in DOMAIN arr : arr[p] = v}

\* np.random.choice(len(arr), 2, False): two distinct numbers below len(arr),
\* borne by a position or not.
choice2_ofRange(arr) ==
    {<<q[1], q[2]>> : q \in {r \in (DOMAIN arr) \X (DOMAIN arr) : r[1] # r[2]}}

\* np.random.choice(arr, 2, False): the elements at two distinct positions.
choice2(arr) ==
    {<<arr[q[1]], arr[q[2]]>> : q \in {r \in (DOMAIN arr) \X (DOMAIN arr) : r[1] # r[2]}}

\* The pair put in descending order.
sort_descending(pair) == IF pair[1] >= pair[2] THEN pair ELSE <<pair[2], pair[1]>>

\* np.sort of a pair
sort(pair) == IF pair[1] <= pair[2] THEN pair ELSE <<pair[2], pair[1]>>

\* breaks with both bearer counts taken in the current array.
breaks_onCurrent(index1, index2, var1, var2) ==
    Cardinality(where(index1, var1)) # 1 \/ Cardinality(where(index1, var2)) # 1

\* breaks requiring both lengths to differ from 1.
breaks_whenBoth(index1, index2, var1, var2) ==
    LET tmp1 == where(index1, var1)
        tmp2 == where(index2, var2)
    IN  Cardinality(tmp1) # 1 /\ Cardinality(tmp2) # 1

\* if (len(tmp1)!=1 or len(tmp2)!=1): break
breaks(index1, index2, var1, var2) ==
    LET tmp1 == where(index1, var1)
        tmp2 == where(index2, var2)
    IN  Cardinality(tmp1) # 1 \/ Cardinality(tmp2) # 1

\* proposed relabelling every bearer of the label at pos.
proposed_cluster(index1, pos, var2) ==
    [p \in DOMAIN index1 |-> IF index1[p] = index1[pos] THEN var2 ELSE index1[p]]

\* Iy = np.array(Ix); Iy[k] = y
proposed(index1, pos, var2) == [index1 EXCEPT ![pos] = var2]

\* One pass of the body of "while True": draw x, y and k, build Iy, and leave
\* the loop when breaks holds, else go round again.
While ==
    /\ pc = "while"
    /\ \E pair \in choice2(Ix) :
          LET xy == sort(pair)
          IN  \E kk \in where(Ix, xy[1]) :
                /\ x' = xy[1]
                /\ y' = xy[2]
                /\ k' = kk
                /\ Iy' = proposed(Ix, kk, xy[2])
                /\ pc' = IF breaks(Ix, proposed(Ix, kk, xy[2]), xy[1], xy[2])
                         THEN "run" ELSE "while"
    /\ UNCHANGED <<Ix, i, u, fed, printed>>
    /\ UNCHANGED <<dataVars, engineVars>>

\* Ix = sess.run(res, {index1: Ix, index2: Iy, var1: x, var2: y}), then the
\* for loop's next i.
Run ==
    /\ pc = "run"
    /\ \E logu \in LogUs :
          /\ u' = logu
          /\ Ix' = res(logu, Ix, Iy, x, y)
    /\ fed' = Ix
    /\ i' = i + 1
    /\ pc' = IF i + 1 < iterNum THEN "while" ELSE "end"
    /\ UNCHANGED <<Iy, x, y, k, printed>>
    /\ UNCHANGED <<dataVars, engineVars>>

\* print('Training Complete! Index array:\n', Ix)
Complete ==
    /\ pc = "end"
    /\ printed' = Ix
    /\ pc' = "done"
    /\ UNCHANGED <<Ix, Iy, x, y, k, i, u, fed>>
    /\ UNCHANGED <<dataVars, engineVars>>

\* ------------------------------------------------------------ datasets
\* The data files the sampler is run on: codes 1..3 and small trait values.
Seeds == {0, 1, 2}

SampleGene(s, rows) ==
    [r \in 1..rows |-> [c \in 1..obsNum |-> Str(((s + r * c + c) % 3) + 1)]]

SamplePheno(s, rows) ==
    [r \in 1..rows |-> [c \in 1..obsNum |-> (s * c + r + c) % 4]]

\* arange counting from 1.
arange_from1 == [p \in Positions |-> p + 1]

\* Ix = np.arange(TotalNum)
arange == [p \in Positions |-> p]

NoCall == [fn |-> "", branch |-> "", status |-> "", unique |-> <<>>, N |-> <<>>,
           idx |-> <<>>, alpha |-> <<>>, cols |-> <<>>, parts |-> <<>>, value |-> 0]

SamplerInit ==
    /\ Ix = arange
    /\ Iy = arange
    /\ x = 0
    /\ y = 0
    /\ k = 0
    /\ i = 0
    /\ pc = IF iterNum > 0 THEN "while" ELSE "end"
    /\ u = 0
    /\ fed = arange
    /\ printed = <<>>

Init ==
    /\ \E s \in Seeds :
          /\ GeneData = SampleGene(s, SNPNum)
          /\ PhenoData = SamplePheno(s, PhenoNum)
    /\ SamplerInit
    /\ discTensor = <<>>
    /\ contTensor = <<>>
    /\ call = ""
    /\ out = NoCall

Next == While \/ Run \/ Complete

Spec == Init /\ [][Next]_vars

\* The notebook cell is sequential code: the statement it stands at is eventually
\* executed. RunTaken is what every sess.run step does to the loop counter, and
\* only a sess.run step is possible at "run".
RunTaken == pc = "run" /\ i' = i + 1

FairSpec ==
    Init /\ [][Next]_vars /\ WF_vars(While) /\ WF_i(RunTaken) /\ WF_vars(Complete)

\* ------------------------------------------------ the likelihood engine
\* Specification SpecLik: the engine's functions applied to tensors drawn from
\* bounded sets.
\* dataset[...].astype(np.int32).astype('str') of a matrix of codes.
astype_str(m) == [r \in 1..Len(m) |-> [c \in 1..Len(m[r]) |-> Str(m[r][c])]]

\* What a tf.gather with an index outside params comes to: the CPU kernel raises
\* InvalidArgumentError, the GPU kernel stores 0 (and lgamma(0) is not finite).
GatherOutcomes(inRange) ==
    IF inRange THEN {"ok"} ELSE {"InvalidArgumentError", "nonfinite"}

\* Tensors of genotype strings and of trait rows; a tensor with trait rows has
\* codes 1..3 only.
LikInit ==
    /\ PhenoData = SamplePheno(1, MaxContRows)
    /\ GeneData = <<>>
    /\ \E rows \in 0..MaxDiscRows :
          \/ /\ \E m \in [1..rows -> [1..obsNum -> Codes]] : discTensor = astype_str(m)
             /\ contTensor = <<>>
          \/ /\ \E m \in [1..rows -> [1..obsNum -> Codes \ {0}]] :
                    discTensor = astype_str(m)
             /\ \E crows \in 1..MaxContRows : contTensor = SubSeq(PhenoData, 1, crows)
    /\ SamplerInit
    /\ call = ""
    /\ out = NoCall

\* logLikeDisc(discTensor) on a tensor of at least one row.
CallLogLikeDisc ==
    /\ call = ""
    /\ Len(discTensor) > 0
    /\ call' = "logLikeDisc"
    /\ LET uc    == unique_with_counts(DiscCombined(discTensor))
           idx   == DiscIdx(uc.y)
       IN  \E st \in GatherOutcomes(IdxInRange(Odds, idx)) :
              out' = [fn |-> "logLikeDisc", branch |-> "", status |-> st,
                      unique |-> uc.y, N |-> uc.count, idx |-> idx,
                      alpha |-> IF st = "InvalidArgumentError" THEN <<>>
                                ELSE DiscAlpha(idx),
                      cols |-> <<>>, parts |-> <<>>,
                      value |-> IF st = "ok"
                                THEN DiscLogProb(DiscAlpha(idx), uc.count,
                                                 DiscDen(Len(discTensor)))
                                ELSE 0]
    /\ UNCHANGED <<discTensor, contTensor>>
    /\ UNCHANGED <<dataVars, samplerVars>>

\* calcProb(discTensor, contTensor)
CallCalcProb ==
    /\ call = ""
    /\ call' = "calcProb"
    /\ LET b   == calcProbBranch(discTensor, contTensor)
           inr == b \notin {"logLikeDepe", "logLikeDisc"}
                  \/ IdxInRange(Odds, DiscIdx(unique(DiscCombined(discTensor))))
       IN  \E st \in GatherOutcomes(inr) :
              out' = [NoCall EXCEPT !.fn = "calcProb", !.branch = b, !.status = st,
                         !.value = IF st = "ok" THEN calcProb(discTensor, contTensor)
                                   ELSE 0]
    /\ UNCHANGED <<discTensor, contTensor>>
    /\ UNCHANGED <<dataVars, samplerVars>>

LikNext == CallLogLikeDisc \/ CallCalcProb

SpecLik == LikInit /\ [][LikNext]_vars

\* Genotype codes of a data file in which no observation is homozygous for the
\* minor allele.
MajorCodes == {1, 2}

\* Specification SpecDepe: the engine's functions applied to every tensor of
\* such codes and to the first rows (none, one or several) of the trait rows of
\* each sample data file.
DepeInit ==
    /\ \E s \in Seeds : PhenoData = SamplePheno(s, MaxContRows)
    /\ GeneData = <<>>
    /\ \E rows \in 0..MaxDiscRows :
          \E m \in [1..rows -> [1..obsNum -> MajorCodes]] : discTensor = astype_str(m)
    /\ \E crows \in 0..MaxContRows : contTensor = SubSeq(PhenoData, 1, crows)
    /\ SamplerInit
    /\ call = ""
    /\ out = NoCall

\* logLikeCont(contTensor)
CallLogLikeCont ==
    /\ call = ""
    /\ call' = "logLikeCont"
    /\ out' = [NoCall EXCEPT !.fn = "logLikeCont", !.status = "ok",
                             !.value = logLikeCont(contTensor)]
    /\ UNCHANGED <<discTensor, contTensor>>
    /\ UNCHANGED <<dataVars, samplerVars>>

\* logLikeDepe(discTensor, contTensor) on a discrete tensor of at least one row:
\* the categories, the columns select_fn selects for each, logLikeCont of each
\* selection, and the returned logProb.
CallLogLikeDepe ==
    /\ call = ""
    /\ Len(discTensor) > 0
    /\ call' = "logLikeDepe"
    /\ LET combined_tensor == DiscCombined(discTensor)
           unique_tensor   == unique(combined_tensor)
       IN  out' = [NoCall EXCEPT
                      !.fn = "logLikeDepe", !.status = "ok",
                      !.unique = unique_tensor,
                      !.cols = [m \in 1..Len(unique_tensor) |->
                                   WhereEq(combined_tensor, unique_tensor[m], 1)],
                      !.parts = [m \in 1..Len(unique_tensor) |->
                                    logLikeCont(DepeSelected(discTensor, contTensor,
                                                             unique_tensor[m]))],
                      !.value = logLikeDepe(discTensor, contTensor)]
    /\ UNCHANGED <<discTensor, contTensor>>
    /\ UNCHANGED <<dataVars, samplerVars>>

DepeNext == CallLogLikeCont \/ CallLogLikeDepe \/ CallLogLikeDisc \/ CallCalcProb

SpecDepe == DepeInit /\ [][DepeNext]_vars

\* ============================================================ properties
\* The score difference pY - pX of the proposal (index2 against index1).
ScoreDiff(index1, index2, var1, var2) == pY(index2, var1, var2) - pX(index1, var1, var2)

\* Number of positions of arr bearing label v.
Bearers(arr, v) == Cardinality(where(arr, v))

\* Positions where two index arrays differ.
Changed(a, b) == {p \in Positions : a[p] # b[p]}

\* C1: acceptance rule. In every sess.run step, with d = scoreAfter - scoreBefore of
\* the proposal and log(u) the draw, the new Ix is Iy exactly when
\* log(u) <= min(0, d) and is the old Ix otherwise; a proposal with d >= 0 is
\* accepted whatever the draw.
C1_AcceptanceRule ==
    [][pc = "run" =>
          LET d == ScoreDiff(Ix, Iy, x, y)
          IN  /\ (Ix' = Iy) <=> (u' <= Minimum(0, d))
              /\ ~(u' <= Minimum(0, d)) => Ix' = Ix
              /\ d >= 0 => Ix' = Iy]_vars

\* A worsening proposal (d < 0) that changes the assignment was accepted by the
\* last sess.run.
C1_Witness ==
    /\ i > 0
    /\ pc = "while"
    /\ Iy # fed
    /\ Ix = Iy
    /\ ScoreDiff(fed, Iy, x, y) < 0
    /\ u <= ScoreDiff(fed, Iy, x, y)

\* C2: no-op rejection. The proposal handed to sess.run is never a move between
\* two singleton clusters: never both label x and label y with exactly one bearer
\* in Ix.
C2_NoSingletonPairScored ==
    pc = "run" => ~(Bearers(Ix, x) = 1 /\ Bearers(Ix, y) = 1)

\* C3: the two drawn labels x and y of the proposal handed to sess.run are
\* distinct values, both present in Ix.
C3_DistinctPresentLabels ==
    pc = "run" => (x # y /\ Bearers(Ix, x) >= 1 /\ Bearers(Ix, y) >= 1)

\* C4: termination. From the identity assignment, whatever the draws, the sampler
\* reaches its end after exactly iterNum sess.run steps and prints the Ix it then
\* holds.
C4_Termination == <>(pc = "done" /\ i = iterNum /\ printed = Ix)

\* The sampler has ended after iterNum steps, having accepted some proposal.
C4_Witness == pc = "done" /\ i = iterNum /\ printed = Ix /\ printed # arange

\* C5: range invariant. Ix and every proposed Iy are arrays over the TotalNum
\* positions whose entries are labels in 0..TotalNum-1.
C5_RangeInvariant ==
    /\ DOMAIN Ix = Positions
    /\ DOMAIN Iy = Positions
    /\ \A p \in Positions : Ix[p] \in Positions /\ Iy[p] \in Positions

\* After two accepted or rejected iterations a proposal stands on a changed Ix.
C5_Witness == i >= 2 /\ pc = "run" /\ Ix # arange /\ Iy # Ix

\* C6: one-element mutation. A sess.run step changes Ix in at most one position;
\* that position is k, bore x and now bears y; a rejected proposal changes no
\* position; building the proposal leaves Ix as it was.
C6_OneElementMutation ==
    [][/\ pc = "while" => Ix' = Ix
       /\ pc = "run" =>
            /\ Cardinality(Changed(Ix, Ix')) <= 1
            /\ \A p \in Changed(Ix, Ix') : p = k /\ Ix[p] = x /\ Ix'[p] = y
            /\ \A p \in Positions \ {k} : Ix'[p] = Ix[p]
            /\ ~(u' <= Minimum(0, ScoreDiff(Ix, Iy, x, y))) => Changed(Ix, Ix') = {}]_vars

\* The last sess.run moved one member out of a cluster of several.
C6_Witness ==
    /\ i > 0
    /\ pc = "while"
    /\ Cardinality(Changed(fed, Ix)) = 1
    /\ Bearers(fed, x) > 1

\* The total score of an index array: the sum over all labels of calcProb of the
\* variant rows and trait rows bearing the label.
RECURSIVE TotalScore(_, _)
TotalScore(index, v) ==
    IF v >= TotalNum THEN 0
    ELSE calcProb(GatherWhere(GeneData, index, v, 0, SNPNum),
                  GatherWhere(PhenoData, index, v, SNPNum, TotalNum))
             + TotalScore(index, v + 1)

\* C7: scoring locality. For the proposal handed to sess.run, the total score of
\* Iy minus the total score of Ix equals pY - pX, which reads the members of
\* labels x and y only; every other label has the same members in Ix and Iy.
C7_ScoringLocality ==
    pc = "run" =>
        /\ TotalScore(Iy, 0) - TotalScore(Ix, 0) = pY(Iy, x, y) - pX(Ix, x, y)
        /\ \A v \in Positions \ {x, y} : where(Ix, v) = where(Iy, v)

\* A proposal that changes the score while a third cluster of non-zero score
\* stands by.
C7_Witness ==
    /\ pc = "run"
    /\ x # y
    /\ ScoreDiff(Ix, Iy, x, y) # 0
    /\ \E v \in Positions \ {x, y} :
          /\ where(Ix, v) # {}
          /\ calcProb(GatherWhere(GeneData, Ix, v, 0, SNPNum),
                      GatherWhere(PhenoData, Ix, v, SNPNum, TotalNum)) # 0

\* The genotype code of row r, observation j of a tensor of genotype strings.
Code(t, r, j) == string_to_number(t[r][j])

\* Whether every genotype code of the tensor is in the set S.
AllCodesIn(t, S) == \A r \in 1..Len(t) : \A j \in 1..Cols(t) : Code(t, r, j) \in S

\* Odds at a 0-based index, as the array is indexed in the notebook.
OddsAt(j) == Odds[j + 1]

\* C8: calcProb dispatch. calcProb(discTensor, contTensor) is logLikeDepe of both
\* when both have rows, logLikeDisc when only discTensor has, logLikeCont when
\* only contTensor has, and exactly 0 when neither has; the branch taken is the one
\* of that case.
C8_CalcProbDispatch ==
    call = "calcProb" =>
        LET d == Len(discTensor) > 0
            c == Len(contTensor) > 0
        IN  /\ out.branch = (IF d /\ c THEN "logLikeDepe"
                             ELSE IF d THEN "logLikeDisc"
                             ELSE IF c THEN "logLikeCont" ELSE "ZERO")
            /\ out.status = "ok" =>
                  /\ (d /\ c) => out.value = logLikeDepe(discTensor, contTensor)
                  /\ (d /\ ~c) => out.value = logLikeDisc(discTensor)
                  /\ (~d /\ c) => out.value = logLikeCont(contTensor)
                  /\ (~d /\ ~c) => out.value = 0

\* calcProb took the logLikeDepe branch and its value is that of neither other
\* function.
C8_Witness ==
    /\ call = "calcProb"
    /\ out.branch = "logLikeDepe"
    /\ out.status = "ok"
    /\ out.value # logLikeDisc(discTensor)
    /\ out.value # logLikeCont(contTensor)

C10_CountConservation ==
    call = "logLikeDisc" =>
        /\ \A c \in 1..Len(out.N) : out.N[c] >= 1
        /\ SumSeq(out.N) = obsNum
        /\ Len(out.N) = Len(out.unique)
        /\ \A j \in 1..obsNum :
              Cardinality({c \in 1..Len(out.unique) :
                              out.unique[c] = DiscCombined(discTensor)[j]}) = 1

\* Two rows whose observations all fall into one category.
C10_Witness ==
    /\ call = "logLikeDisc"
    /\ Len(discTensor) = 2
    /\ Len(out.N) = 1
    /\ out.N[1] = obsNum
    /\ obsNum > 1

\* C11: continuous selections with a row count other than one contribute nothing.
\* logLikeCont is exactly 0 on a tensor of no row and on one of two or more rows,
\* whatever the data; logLikeDepe then adds 0 for every category; and calcProb of
\* a selection with two or more trait rows is logLikeDisc of its variant rows, 0
\* when it has none.
C11_ContNeutral ==
    /\ (call = "logLikeCont" /\ Len(contTensor) # 1) => out.value = 0
    /\ (call = "logLikeDepe" /\ Len(contTensor) # 1) =>
           /\ \A m \in 1..Len(out.parts) : out.parts[m] = 0
           /\ out.value = logLikeDisc(discTensor)
    /\ (call = "calcProb" /\ Len(contTensor) >= 2) =>
           out.value = (IF Len(discTensor) > 0 THEN logLikeDisc(discTensor) ELSE 0)

\* calcProb of variant rows with two trait rows, the first of which alone has a
\* non-zero logLikeCont, came to a non-zero logLikeDisc.
C11_Witness ==
    /\ call = "calcProb"
    /\ out.branch = "logLikeDepe"
    /\ Len(contTensor) >= 2
    /\ logLikeCont(<<contTensor[1]>>) # 0
    /\ out.value # 0

\* The permutations of the rows 1..n.
Perms(n) == {p \in [1..n -> 1..n] : \A a, b \in 1..n : a # b => p[a] # p[b]}

\* The tensor t with its rows reordered by p.
PermuteRows(t, p) == [r \in 1..Len(t) |-> t[p[r]]]

\* The multiset of (n_c, alpha_c) pairs: each pair with its number of categories.
PairBag(N, alpha) ==
    [pr \in {<<N[c], alpha[c]>> : c \in 1..Len(N)} |->
        Cardinality({c \in 1..Len(N) : <<N[c], alpha[c]>> = pr})]

\* C12: row-order invariance of logLikeDisc. For the tensor logLikeDisc was given
\* and every reordering of its rows, the multiset of (n_c, alpha_c) pairs over the
\* observed categories of the reordered tensor is the one logLikeDisc computed,
\* and logLikeDisc of the reordered tensor is the value it returned.
C12_RowOrderInvariance ==
    (call = "logLikeDisc" /\ out.status = "ok") =>
        \A p \in Perms(Len(discTensor)) :
           LET t2  == PermuteRows(discTensor, p)
               uc2 == unique_with_counts(DiscCombined(t2))
           IN  /\ PairBag(uc2.count, DiscAlpha(DiscIdx(uc2.y))) = PairBag(out.N, out.alpha)
               /\ logLikeDisc(t2) = out.value

\* logLikeDisc was given two different rows that fall into two categories of
\* different alpha; swapping the rows changes the category strings.
C12_Witness ==
    /\ call = "logLikeDisc"
    /\ out.status = "ok"
    /\ Len(discTensor) = 2
    /\ discTensor[1] # discTensor[2]
    /\ Len(out.alpha) = 2
    /\ out.alpha[1] # out.alpha[2]
    /\ unique(DiscCombined(PermuteRows(discTensor, <<2, 1>>))) # out.unique

\* The absolute value of a score difference.
Abs(d) == IF d < 0 THEN 0 - d ELSE d

\* C13 as stated: in every sess.run step the decision on the move (difference d)
\* is the complement of the decision the same draw gives the move with the roles
\* of x and y swapped (difference -d).
C13_ComplementaryDecisions ==
    [][pc = "run" =>
          (accept(u', Ix, Iy, x, y) <=> ~accept(u', Iy, Ix, y, x))]_vars

\* C13 (amended): in every sess.run step the swapped move has difference -d; for
\* the same draw at least one of the move and the swapped move is accepted, a
\* move with d >= 0 always; both are accepted exactly when log(u) <= -|d|, and
\* the two decisions are complementary exactly when log(u) > -|d|.
C13_ReverseMoveAcceptance ==
    [][pc = "run" =>
          \A d \in {ScoreDiff(Ix, Iy, x, y)} :
          \A a \in {Abs(d)} :
          \A fwd \in {accept(u', Ix, Iy, x, y)} :
          \A bwd \in {accept(u', Iy, Ix, y, x)} :
              /\ bwd <=> (u' <= 0 /\ u' <= 0 - d)
              /\ fwd \/ bwd
              /\ d >= 0 => fwd
              /\ d <= 0 => bwd
              /\ (fwd /\ bwd) <=> (u' <= 0 - a)
              /\ (fwd <=> ~bwd) <=> (u' > 0 - a)
              /\ fwd => Ix' = Iy]_vars

\* The last sess.run accepted an improving move (d > 0) on a draw that would
\* have accepted the swapped move as well.
C13_Witness ==
    /\ i > 0
    /\ Ix = Iy
    /\ Ix # fed
    /\ ScoreDiff(fed, Iy, x, y) > 0
    /\ u <= 0 - ScoreDiff(fed, Iy, x, y)
    /\ accept(u, Iy, fed, y, x)

\* C14: monotone relabeling. The drawn pair is sorted, x <= y, so no step lowers
\* the label of any position; from the identity assignment every position p keeps
\* a label >= p, and the last position keeps label TotalNum-1.
C14_MonotoneRelabeling ==
    [][/\ x' <= y'
       /\ \A p \in Positions : Ix'[p] >= Ix[p]
       /\ \A p \in Positions : Ix'[p] >= p
       /\ Ix'[TotalNum - 1] = TotalNum - 1]_vars

\* Two positions have been raised above their own index, the last sess.run
\* having raised one.
C14_Witness ==
    /\ i > 0
    /\ \E p \in Positions : Ix[p] > fed[p]
    /\ Cardinality({p \in Positions : Ix[p] > p}) >= 2

\* The labels present in an index array.
LabelsOf(arr) == {arr[p] : p \in Positions}

\* C15: clusters are never created. No step adds a label to Ix, so the number of
\* clusters never grows; a proposal holds labels of Ix only; and once every
\* position bears one label, Ix never changes again.
C15_NoClusterCreated ==
    [][/\ LabelsOf(Ix') \subseteq LabelsOf(Ix)
       /\ LabelsOf(Iy') \subseteq LabelsOf(Ix)
       /\ Cardinality(LabelsOf(Ix')) <= Cardinality(LabelsOf(Ix))
       /\ Cardinality(LabelsOf(Ix)) = 1 => Ix' = Ix]_vars

\* All positions had come to bear one label, and a further sess.run has left the
\* assignment as it was.
C15_Witness ==
    /\ i > 0
    /\ Cardinality(LabelsOf(fed)) = 1
    /\ Ix = fed
    /\ Cardinality(LabelsOf(arange)) > 1

\* C16: the retry condition never triggers. Every pass of the body of
\* "while True", whatever pair and position it draws, finds x with more than one
\* bearer in Ix or y with more than one bearer in the Iy it built, and leaves the
\* loop: one pass per iteration, and the pair it drew is the one sess.run scores.
C16_RetryNeverTriggers ==
    [][pc = "while" =>
          /\ Bearers(Ix, x') > 1 \/ Bearers(Iy', y') > 1
          /\ breaks(Ix, Iy', x', y')
          /\ pc' = "run"
          /\ i' = i]_vars

\* A pass drew two singleton labels and left the loop all the same, y having two
\* bearers in Iy.
C16_Witness ==
    /\ pc = "run"
    /\ i > 0
    /\ x # y
    /\ Bearers(Ix, x) = 1
    /\ Bearers(Ix, y) = 1
    /\ Bearers(Iy, y) = 2

\* The set of the columns listed in a sequence of column numbers.
ColSet(cols) == {cols[j] : j \in 1..Len(cols)}

\* The columns of the tensor c listed in cols, in that order.
ColumnsOf(c, cols) == [r \in 1..Len(c) |-> [j \in 1..Len(cols) |-> c[r][cols[j]]]]

\* C17: logLikeDepe conditions the continuous data on a partition of the
\* observations. For a discrete tensor with rows, the column subsets handed to
\* logLikeCont, one per distinct composite category, are non-empty, pairwise
\* disjoint and together all obsNum columns, each the columns of its category;
\* the result is the sum of logLikeCont over these subsets plus logLikeDisc of
\* the discrete tensor.
C17_DepePartition ==
    call = "logLikeDepe" =>
        LET n == Len(out.unique)
        IN  /\ n >= 1
            /\ Len(out.cols) = n
            /\ Len(out.parts) = n
            /\ \A m \in 1..n :
                  /\ out.cols[m] # <<>>
                  /\ ColSet(out.cols[m]) =
                        {j \in 1..obsNum : DiscCombined(discTensor)[j] = out.unique[m]}
                  /\ Cardinality(ColSet(out.cols[m])) = Len(out.cols[m])
                  /\ out.parts[m] = logLikeCont(ColumnsOf(contTensor, out.cols[m]))
            /\ \A m, l \in 1..n :
                  m # l => ColSet(out.cols[m]) \cap ColSet(out.cols[l]) = {}
            /\ UNION {ColSet(out.cols[m]) : m \in 1..n} = 1..obsNum
            /\ out.value = SumSeq(out.parts) + logLikeDisc(discTensor)

\* One trait row was conditioned on two categories whose column subsets score
\* differently.
C17_Witness ==
    /\ call = "logLikeDepe"
    /\ Len(contTensor) = 1
    /\ Len(discTensor) = 2
    /\ Len(out.cols) >= 2
    /\ out.parts[1] # 0
    /\ out.parts[1] # out.parts[2]

====
